---- MODULE Spec2Model ----
(***************************************************************************)
(* Model of the Ollama-compatible proxy server (server.go): the route      *)
(* handlers registered by Server.setupRoutes, one request at a time, on a  *)
(* server that Server.Start has brought up with a model filter.            *)
(*                                                                         *)
(* A handler is cut into steps at its blocking backend calls               *)
(* (GetFullModelName, Chat, ChatStream, stream.Recv); everything the code  *)
(* does between two blocking calls belongs to one action.                  *)
(*                                                                         *)
(* Spec       the route handlers on a started server                       *)
(* SpecServer Server.Start and Server.Stop step by step, with the          *)
(*            models-filter file and the connections being served          *)
(* SpecApp    the App controller (app.go): auto-start, menu loop and       *)
(*            onExit around serverMutex, with the Server they run          *)
(***************************************************************************)
EXTENDS Integers, Sequences, FiniteSets, TLC

(***************************************************************************)
(* Bounds of the model.                                                    *)
(***************************************************************************)
\* longest catalog GetModels returns
MaxCatalog == 3
\* most deltas one backend stream yields before it ends
MaxDeltas == 3
\* most lines of a models-filter file
MaxLines == 2
\* most connections the server serves at a time
MaxInflight == 2
\* most calls of Server.Stop on one server
MaxStops == 2

(***************************************************************************)
(* Values.                                                                 *)
(***************************************************************************)
\* a JSON key that the request body does not carry
NoField == "<absent>"

\* catalog entries as the provider returns them: name is decorated, model is
\* the bare identifier
Entries ==
    { [name |-> "openai/gpt-4o", model |-> "gpt-4o"],
      [name |-> "openai/gpt-4o-mini", model |-> "gpt-4o-mini"] }

\* lines a models-filter file may contribute to the filter set
FilterNames == {"gpt-4o", "gpt-4o-mini", "openai/gpt-4o"}

\* aliases the backend catalog can resolve
KnownAliases == {"gpt-4o"}
Aliases == {"gpt-4o", "nope"}

\* content fragments, as sequences of characters
Contents == { <<"H", "e">>, <<"y">> }
FinishReasons == {"", "stop", "length"}

\* openai.ChatCompletionStreamResponse: Choices is empty, or Choices[0]
\* carries Delta.Content and FinishReason
Deltas ==
    { [choices |-> 0, content |-> <<>>, finish |-> ""] } \cup
    [choices : {1}, content : Contents, finish : FinishReasons]

\* openai.ChatCompletionResponse of the blocking Chat call
Completions ==
    { [choices |-> 0, content |-> <<>>, finish |-> ""] } \cup
    [choices : {1}, content : Contents \cup {<<>>}, finish : FinishReasons]

SeqsUpTo(S, n) == UNION { [1..k -> S] : k \in 0..n }

Catalogs == SeqsUpTo(Entries, MaxCatalog)

\* requests a client can send to the three API routes
TagsRequests ==
    { [route |-> "tags", json |-> "none", name |-> NoField,
       model |-> NoField, stream |-> "absent"] }
ShowRequests ==
    { [route |-> "show", json |-> "malformed", name |-> NoField,
       model |-> NoField, stream |-> "absent"] } \cup
    [route : {"show"}, json : {"ok"}, name : {NoField, "", "gpt-4o"},
     model : {NoField}, stream : {"absent"}]
ChatRequests ==
    { [route |-> "chat", json |-> "malformed", name |-> NoField,
       model |-> NoField, stream |-> "absent"] } \cup
    [route : {"chat"}, json : {"ok"}, name : {NoField},
     model : Aliases, stream : {"absent", "true", "false"}]

NoRequest ==
    [route |-> "none", json |-> "none", name |-> NoField,
     model |-> NoField, stream |-> "absent"]

(***************************************************************************)
(* What a handler writes to the http.ResponseWriter.                       *)
(***************************************************************************)
\* c.JSON(status, gin.H{"error": ...}): one JSON object, no trailing newline
ErrorObject ==
    [done |-> "absent", content |-> <<>>, finish |-> "", error |-> TRUE,
     nl |-> FALSE, role |-> ""]
\* c.JSON(200, details)
DetailsObject ==
    [done |-> "absent", content |-> <<>>, finish |-> "", error |-> FALSE,
     nl |-> FALSE, role |-> ""]
\* c.JSON(200, ollamaResponse)
OllamaResponse(content, finishReason) ==
    [done |-> "true", content |-> content, finish |-> finishReason,
     error |-> FALSE, nl |-> FALSE, role |-> "assistant"]
\* fmt.Fprintf(w, "%s\n", errorJson)
ErrorFrame ==
    [done |-> "absent", content |-> <<>>, finish |-> "", error |-> TRUE,
     nl |-> TRUE, role |-> ""]
\* fmt.Fprintf(w, "%s\n", jsonData) with "done": false
DeltaFrame(content) ==
    [done |-> "false", content |-> content, finish |-> "", error |-> FALSE,
     nl |-> TRUE, role |-> "assistant"]
\* fmt.Fprintf(w, "%s\n", finalJsonData) with "done": true
FinalFrameNotDone(finishReason) ==
    [done |-> "false", content |-> <<>>, finish |-> finishReason,
     error |-> FALSE, nl |-> TRUE, role |-> "assistant"]
FinalFrame(finishReason) ==
    [done |-> "true", content |-> <<>>, finish |-> finishReason,
     error |-> FALSE, nl |-> TRUE, role |-> "assistant"]

VARIABLES
    started,          \* Server.Start has set up the routes and listens
    filterMap,        \* Server.filterMap
    pc,               \* where the handler of the current request stands
    req,              \* the request being handled
    status,           \* HTTP status of the response, 0 while undecided
    ctype,            \* Content-Type header of the response
    body,             \* what the handler has written to the ResponseWriter
    catalog,          \* what GetModels returned to the tags handler
    listing,          \* the "models" array the tags handler answered with
    calls,            \* backend operations invoked for the current request
    received,         \* the deltas stream.Recv has returned, in order
    lastFinishReason, \* local of the streaming handler
    backendEnd,       \* how the backend's stream terminates: eof or error
    streamEnd,        \* the end the receive loop has seen: none, eof, error
    clientConnected,  \* the client's connection is still up
    resolved,         \* what GetFullModelName returned for the request
    callErr,          \* the backend call of the request returned an error
    drained,          \* Recv calls that returned after the client was gone
    chatResponse,     \* what the blocking Chat call returned
    path,             \* the branches of the chat handler the request entered
    unflushed,        \* frames written to the writer and not flushed yet
    outcome,          \* how the handler ended: returned or panicked
    filterFile,       \* the models-filter file at Server.modelFilter
    startPc,          \* where the goroutine running Server.Start stands
    httpServer,       \* Server.httpServer: nil or set
    listener,         \* the ListenAndServe goroutine and its listener
    inShutdown,       \* httpServer.Shutdown has been called
    stopCh,           \* Server.stopCh: open or closed
    wg,               \* counter of Server.wg
    inflight,         \* connections whose request is being served
    stopPc,           \* where the caller of Server.Stop stands
    stopCalls,        \* calls of Server.Stop so far
    stopReturns,      \* calls of Server.Stop that have returned
    appPc,            \* where each goroutine of the App stands
    serverMutex,      \* App.serverMutex: free, or the goroutine holding it
    serverActive,     \* App.serverActive
    server,           \* App.server: nil or set
    config,           \* App.config
    savedConfig       \* the configuration file on disk

vars ==
    << started, filterMap, pc, req, status, ctype, body, catalog, listing,
       calls, received, lastFinishReason, backendEnd, streamEnd,
       clientConnected, resolved, callErr, drained, chatResponse, path,
       unflushed, outcome, filterFile, startPc, httpServer, listener,
       inShutdown, stopCh, wg, inflight, stopPc, stopCalls, stopReturns,
       appPc, serverMutex, serverActive, server, config, savedConfig >>

\* the state of the Server object and of its goroutines
serverVars ==
    << filterFile, startPc, httpServer, listener, inShutdown, stopCh, wg,
       inflight, stopPc, stopCalls, stopReturns >>

\* the state of the App object and of its goroutines
appVars ==
    << appPc, serverMutex, serverActive, server, config, savedConfig >>

\* what the route handlers leave alone
lifecycleVars == << serverVars, appVars >>

\* a models-filter file the model does not look into
Unread == [state |-> "unread", lines |-> << >>]

\* NewServer: no http.Server yet, stopCh open, no goroutine
InitServerVars ==
    /\ startPc = "none"
    /\ httpServer = "nil"
    /\ listener = "none"
    /\ inShutdown = FALSE
    /\ stopCh = "open"
    /\ wg = 0
    /\ inflight = 0
    /\ stopPc = "idle"
    /\ stopCalls = 0
    /\ stopReturns = 0

\* the goroutines of the App: the auto-start of onReady, the menu loop and
\* the caller of onExit
AppThreads == {"auto", "menu", "exit"}

DefaultConfig == [ServerEnabled |-> FALSE]

\* NewApp with the configuration cfg that LoadConfig found on disk
InitAppVars(cfg) ==
    /\ appPc = [t \in AppThreads |-> "none"]
    /\ serverMutex = "free"
    /\ serverActive = FALSE
    /\ server = "nil"
    /\ config = cfg
    /\ savedConfig = cfg

\* no openai.ChatCompletionResponse in hand
NoCompletion == [choices |-> 0, content |-> <<>>, finish |-> ""]

NoCalls ==
    [models |-> 0, details |-> 0, resolve |-> 0, chat |-> 0,
     chatStream |-> 0, recv |-> 0, close |-> 0]

Called(op) == [calls EXCEPT ![op] = @ + 1]

\* no routes yet and no request in hand
InitHandlerVars ==
    /\ started = FALSE
    /\ filterMap = {}
    /\ pc = "idle"
    /\ req = NoRequest
    /\ status = 0
    /\ ctype = ""
    /\ body = << >>
    /\ catalog = << >>
    /\ listing = << >>
    /\ calls = NoCalls
    /\ received = << >>
    /\ lastFinishReason = ""
    /\ backendEnd = "none"
    /\ streamEnd = "none"
    /\ clientConnected = TRUE
    /\ resolved = "none"
    /\ callErr = FALSE
    /\ drained = 0
    /\ chatResponse = NoCompletion
    /\ path = {}
    /\ unflushed = 0
    /\ outcome = "none"

Init ==
    /\ InitHandlerVars
    /\ filterFile = Unread
    /\ InitServerVars
    /\ InitAppVars(DefaultConfig)

\* the variables of one request, as a handler leaves them alone
requestVars ==
    << req, status, ctype, body, catalog, listing, calls, received,
       lastFinishReason, backendEnd, streamEnd, clientConnected,
       resolved, callErr, drained, chatResponse, path, unflushed, outcome >>

\* Server.Start up to the listener, with the filter set the file gave and
\* a listener that binds: the filter set is assigned once
Start(filter) ==
    /\ ~started
    /\ started' = TRUE
    /\ filterMap' = filter
    /\ startPc' = "wait"
    /\ httpServer' = "set"
    /\ listener' = "open"
    /\ wg' = wg + 1
    /\ UNCHANGED << pc, requestVars, appVars, filterFile, inShutdown, stopCh,
                    inflight, stopPc, stopCalls, stopReturns >>

(***************************************************************************)
(* GET /api/tags                                                           *)
(***************************************************************************)
\* the filter check of the listing loop, on the entry's bare identifier
KeepIgnoringEmpty(m, filter) ==
    m.model \in filter
Keep(m, filter) ==
    IF Cardinality(filter) > 0 THEN m.model \in filter ELSE TRUE

\* the entry appended to newModels, with the placeholder size
Decorate(m) ==
    [name |-> m.name, model |-> m.model, size |-> 270898672]

RECURSIVE NewModels(_, _)
NewModels(models, filter) ==
    IF models = << >> THEN << >>
    ELSE IF Keep(Head(models), filter)
         THEN << Decorate(Head(models)) >> \o NewModels(Tail(models), filter)
         ELSE NewModels(Tail(models), filter)

TagsHandler(r, models, ok) ==
    /\ UNCHANGED lifecycleVars
    /\ started /\ pc = "idle"
    /\ r \in TagsRequests
    /\ UNCHANGED << chatResponse, path, unflushed >>
    /\ req' = r
    /\ calls' = Called("models")
    /\ ctype' = "application/json"
    /\ IF ok
       THEN /\ catalog' = models
            /\ listing' = NewModels(models, filterMap)
            /\ status' = 200
            /\ body' = << >>
       ELSE /\ catalog' = << >>
            /\ listing' = << >>
            /\ status' = 500
            /\ body' = << ErrorObject >>
    /\ pc' = "done"
    /\ outcome' = "returned"
    /\ callErr' = ~ok
    /\ UNCHANGED << started, filterMap, received, lastFinishReason,
                    backendEnd, streamEnd, clientConnected, resolved,
                    drained >>

(***************************************************************************)
(* POST /api/show                                                          *)
(***************************************************************************)
\* c.BindJSON / c.ShouldBindJSON return an error for a body that does not
\* parse into the request type
BindFailsNever(r) == FALSE
BindFails(r) == r.json = "malformed"

\* request["name"] of a map[string]string: a missing key reads as ""
ModelName(r) == IF r.name = NoField THEN "" ELSE r.name

\* the check modelName == ""
NameMissingOnlyAbsent(r) == r.name = NoField
NameMissing(r) == ModelName(r) = ""

ShowHandler(r, ok) ==
    /\ UNCHANGED lifecycleVars
    /\ started /\ pc = "idle"
    /\ r \in ShowRequests
    /\ UNCHANGED << chatResponse, path, unflushed >>
    /\ req' = r
    /\ IF BindFails(r)
       THEN \* BindJSON has sent the 400 header before c.JSON sets the type
            /\ status' = 400
            /\ ctype' = ctype
            /\ body' = << ErrorObject >>
            /\ calls' = calls
            /\ callErr' = FALSE
       ELSE IF NameMissing(r)
       THEN /\ status' = 400
            /\ ctype' = "application/json"
            /\ body' = << ErrorObject >>
            /\ calls' = calls
            /\ callErr' = FALSE
       ELSE /\ calls' = Called("details")
            /\ callErr' = ~ok
            /\ status' = IF ok THEN 200 ELSE 500
            /\ ctype' = "application/json"
            /\ body' = IF ok THEN << DetailsObject >> ELSE << ErrorObject >>
    /\ pc' = "done"
    /\ outcome' = "returned"
    /\ UNCHANGED << started, filterMap, catalog, listing, received,
                    lastFinishReason, backendEnd, streamEnd,
                    clientConnected, resolved, drained >>

(***************************************************************************)
(* POST /api/chat: binding and dispatch                                    *)
(***************************************************************************)
\* streamRequested: true unless the body carries "stream": false
StreamRequestedOnlyTrue(r) == r.stream = "true"
StreamRequested(r) ==
    IF r.stream = "absent" THEN TRUE ELSE r.stream = "true"

\* the handler's return with a JSON error object
ReplyError(code) ==
    /\ status' = code
    /\ ctype' = "application/json"
    /\ body' = << ErrorObject >>
    /\ pc' = "done"
    /\ outcome' = "returned"

ChatBind(r) ==
    /\ UNCHANGED lifecycleVars
    /\ started /\ pc = "idle"
    /\ r \in ChatRequests
    /\ UNCHANGED << chatResponse, path, unflushed >>
    /\ req' = r
    /\ IF BindFails(r)
       THEN ReplyError(400)
       ELSE /\ pc' = IF StreamRequested(r) THEN "stream_resolve"
                                           ELSE "chat_resolve"
            /\ UNCHANGED << status, ctype, body, outcome >>
    /\ UNCHANGED << started, filterMap, catalog, listing, calls, received,
                    lastFinishReason, backendEnd, streamEnd,
                    clientConnected, resolved, callErr, drained >>

\* OpenrouterProvider.GetFullModelName: the outcomes for an alias
ResolveOutcomes(alias) ==
    {"backenderr"} \cup
    (IF alias \in KnownAliases THEN {"ok"} ELSE {"notfound"})

\* the status the chat route answers a failed GetFullModelName with
ResolveErrorStatusByKind(res) == IF res = "notfound" THEN 404 ELSE 500
ResolveErrorStatus(res) == 404

(***************************************************************************)
(* POST /api/chat with "stream": false                                     *)
(***************************************************************************)
NonStreamResolve(res) ==
    /\ UNCHANGED lifecycleVars
    /\ pc = "chat_resolve"
    /\ path' = path \cup {"nonstream"}
    /\ UNCHANGED << chatResponse, unflushed >>
    /\ res \in ResolveOutcomes(req.model)
    /\ calls' = Called("resolve")
    /\ resolved' = res
    /\ IF res # "ok"
       THEN ReplyError(ResolveErrorStatus(res))
       ELSE /\ pc' = "chat_call"
            /\ UNCHANGED << status, ctype, body, outcome >>
    /\ UNCHANGED << started, filterMap, req, catalog, listing, received,
                    lastFinishReason, backendEnd, streamEnd,
                    clientConnected, callErr, drained >>

\* finishReason of the non-streaming answer
FinishReasonOfRaw(response) == response.finish
FinishReasonOf(response) ==
    IF response.finish # "" THEN response.finish ELSE "stop"

NonStreamChat(ok, response) ==
    /\ UNCHANGED lifecycleVars
    /\ pc = "chat_call"
    /\ response \in Completions
    /\ chatResponse' = IF ok THEN response ELSE NoCompletion
    /\ UNCHANGED << path, unflushed >>
    /\ calls' = Called("chat")
    /\ IF ~ok
       THEN ReplyError(500)
       ELSE IF response.choices = 0
       THEN ReplyError(500)
       ELSE /\ status' = 200
            /\ ctype' = "application/json"
            /\ body' = << OllamaResponse(response.content,
                                         FinishReasonOf(response)) >>
            /\ pc' = "done"
            /\ outcome' = "returned"
    /\ callErr' = ~ok
    /\ UNCHANGED << started, filterMap, req, catalog, listing, received,
                    lastFinishReason, backendEnd, streamEnd,
                    clientConnected, resolved, drained >>

(***************************************************************************)
(* POST /api/chat, streaming                                               *)
(***************************************************************************)
StreamResolve(res) ==
    /\ UNCHANGED lifecycleVars
    /\ pc = "stream_resolve"
    /\ path' = path \cup {"stream"}
    /\ UNCHANGED << chatResponse, unflushed >>
    /\ res \in ResolveOutcomes(req.model)
    /\ calls' = Called("resolve")
    /\ resolved' = res
    /\ IF res # "ok"
       THEN ReplyError(ResolveErrorStatus(res))
       ELSE /\ pc' = "stream_open"
            /\ UNCHANGED << status, ctype, body, outcome >>
    /\ UNCHANGED << started, filterMap, req, catalog, listing, received,
                    lastFinishReason, backendEnd, streamEnd,
                    clientConnected, callErr, drained >>

\* w.(http.Flusher): gin's ResponseWriter always is one
IsFlusher == TRUE
\* json.Marshal of a map of strings, numbers and booleans does not fail
MarshalFails == FALSE

\* defer stream.Close(), run when the handler returns or panics
NoClose(c) == c
DeferredClose(c) == [c EXCEPT !.close = @ + 1]

\* the handle ChatStream returned exists and has not been closed
StreamHandleOpen == backendEnd # "none" /\ calls.close = 0

\* gin.Default()'s Recovery answers a panic with 500 unless the response
\* has begun, in which case the status already sent stays
RecoveredStatus(b) == IF Len(b) > 0 THEN 200 ELSE 500

\* ChatStream, the deferred Close, the headers and the Flusher check; end
\* is how the stream that the backend opened will terminate
StreamOpen(ok, end) ==
    /\ UNCHANGED lifecycleVars
    /\ pc = "stream_open"
    /\ UNCHANGED << chatResponse, path, unflushed >>
    /\ end \in {"eof", "error"}
    /\ IF ~ok
       THEN /\ calls' = Called("chatStream")
            /\ ReplyError(500)
            /\ UNCHANGED << backendEnd, lastFinishReason >>
       ELSE /\ backendEnd' = end
            /\ ctype' = "application/x-ndjson"
            /\ lastFinishReason' = ""
            /\ IF ~IsFlusher
               THEN /\ calls' = DeferredClose(Called("chatStream"))
                    /\ status' = 200
                    /\ pc' = "done"
                    /\ outcome' = "returned"
               ELSE /\ calls' = Called("chatStream")
                    /\ pc' = "streaming"
                    /\ UNCHANGED << status, outcome >>
            /\ body' = body
    /\ callErr' = ~ok
    /\ UNCHANGED << started, filterMap, req, catalog, listing, received,
                    streamEnd, clientConnected, resolved, drained >>

\* flusher.Flush(): what was written goes out to the client
NoFlush(n) == n
Flush(n) == 0

\* a Recv that returns once the client is gone
Drained == IF clientConnected THEN drained ELSE drained + 1

\* lastFinishReason after a chunk
SaveFinishReasonFirstWins(last, d) ==
    IF last = "" /\ d.choices > 0 /\ d.finish # "" THEN d.finish ELSE last
SaveFinishReason(last, d) ==
    IF d.choices > 0 /\ d.finish # "" THEN d.finish ELSE last

\* one turn of the receive loop in which Recv returns a chunk
StreamRecvDelta(d) ==
    /\ UNCHANGED lifecycleVars
    /\ pc = "streaming"
    /\ d \in Deltas
    /\ UNCHANGED << chatResponse, path >>
    /\ Len(received) < MaxDeltas
    /\ received' = Append(received, d)
    /\ lastFinishReason' = SaveFinishReason(lastFinishReason, d)
    /\ IF d.choices = 0
       THEN \* response.Choices[0] panics: index out of range
            /\ calls' = DeferredClose(Called("recv"))
            /\ status' = RecoveredStatus(body)
            /\ body' = body
            /\ unflushed' = unflushed
            /\ pc' = "done"
            /\ outcome' = "panic"
       ELSE IF MarshalFails
       THEN /\ calls' = DeferredClose(Called("recv"))
            /\ status' = 200
            /\ body' = body
            /\ unflushed' = unflushed
            /\ pc' = "done"
            /\ outcome' = "returned"
       ELSE /\ calls' = Called("recv")
            /\ status' = 200
            /\ body' = Append(body, DeltaFrame(d.content))
            /\ unflushed' = Flush(unflushed + 1)
            /\ UNCHANGED << pc, outcome >>
    /\ drained' = Drained
    /\ UNCHANGED << started, filterMap, req, ctype, catalog, listing,
                    backendEnd, streamEnd, clientConnected, resolved,
                    callErr >>

\* finish reason of the final frame
FinalFinishReason(last) == IF last = "" THEN "stop" ELSE last

\* Recv returns io.EOF: leave the loop and send the final frame
StreamRecvEOF ==
    /\ UNCHANGED lifecycleVars
    /\ pc = "streaming"
    /\ backendEnd = "eof"
    /\ streamEnd' = "eof"
    /\ lastFinishReason' = FinalFinishReason(lastFinishReason)
    /\ calls' = DeferredClose(Called("recv"))
    /\ status' = 200
    /\ body' = IF MarshalFails THEN body
               ELSE Append(body, FinalFrame(lastFinishReason'))
    /\ unflushed' = IF MarshalFails THEN unflushed ELSE Flush(unflushed + 1)
    /\ UNCHANGED << chatResponse, path >>
    /\ pc' = "done"
    /\ outcome' = "returned"
    /\ drained' = Drained
    /\ UNCHANGED << started, filterMap, req, ctype, catalog, listing,
                    received, backendEnd, clientConnected, resolved,
                    callErr >>

\* Recv returns another error: one error frame, then return
StreamRecvErrorThenFinal ==
    /\ UNCHANGED lifecycleVars
    /\ pc = "streaming"
    /\ backendEnd = "error"
    /\ streamEnd' = "error"
    /\ lastFinishReason' = FinalFinishReason(lastFinishReason)
    /\ calls' = DeferredClose(Called("recv"))
    /\ status' = 200
    /\ body' = Append(Append(body, ErrorFrame), FinalFrame(lastFinishReason'))
    /\ unflushed' = Flush(unflushed + 1)
    /\ UNCHANGED << chatResponse, path >>
    /\ pc' = "done"
    /\ outcome' = "returned"
    /\ drained' = Drained
    /\ UNCHANGED << started, filterMap, req, ctype, catalog, listing,
                    received, backendEnd, clientConnected, resolved,
                    callErr >>
StreamRecvError ==
    /\ UNCHANGED lifecycleVars
    /\ pc = "streaming"
    /\ backendEnd = "error"
    /\ streamEnd' = "error"
    /\ calls' = DeferredClose(Called("recv"))
    /\ status' = 200
    /\ body' = Append(body, ErrorFrame)
    /\ unflushed' = Flush(unflushed + 1)
    /\ UNCHANGED << chatResponse, path >>
    /\ pc' = "done"
    /\ outcome' = "returned"
    /\ drained' = Drained
    /\ UNCHANGED << started, filterMap, req, ctype, catalog, listing,
                    received, lastFinishReason, backendEnd, clientConnected,
                    resolved, callErr >>

\* the client's connection goes away while the handler streams; the handler
\* reads neither the request context nor the result of its writes
ClientDisconnect ==
    /\ UNCHANGED lifecycleVars
    /\ pc = "streaming"
    /\ clientConnected
    /\ clientConnected' = FALSE
    /\ UNCHANGED << started, filterMap, pc, req, status, ctype, body, catalog,
                    listing, calls, received, lastFinishReason, backendEnd,
                    streamEnd, resolved, callErr, drained, chatResponse,
                    path, unflushed, outcome >>

\* the handler is over and the server takes the next request
Finish ==
    /\ UNCHANGED lifecycleVars
    /\ pc = "done"
    /\ pc' = "idle"
    /\ req' = NoRequest
    /\ status' = 0
    /\ ctype' = ""
    /\ body' = << >>
    /\ catalog' = << >>
    /\ listing' = << >>
    /\ calls' = NoCalls
    /\ received' = << >>
    /\ lastFinishReason' = ""
    /\ backendEnd' = "none"
    /\ streamEnd' = "none"
    /\ clientConnected' = TRUE
    /\ resolved' = "none"
    /\ callErr' = FALSE
    /\ drained' = 0
    /\ chatResponse' = NoCompletion
    /\ path' = {}
    /\ unflushed' = 0
    /\ outcome' = "none"
    /\ UNCHANGED << started, filterMap >>

Next ==
    \/ \E filter \in SUBSET FilterNames : Start(filter)
    \/ \E r \in TagsRequests, models \in Catalogs, ok \in BOOLEAN :
           TagsHandler(r, models, ok)
    \/ \E r \in ShowRequests, ok \in BOOLEAN : ShowHandler(r, ok)
    \/ \E r \in ChatRequests : ChatBind(r)
    \/ \E res \in {"ok", "notfound", "backenderr"} : NonStreamResolve(res)
    \/ \E ok \in BOOLEAN, response \in Completions : NonStreamChat(ok, response)
    \/ \E res \in {"ok", "notfound", "backenderr"} : StreamResolve(res)
    \/ \E ok \in BOOLEAN, end \in {"eof", "error"} : StreamOpen(ok, end)
    \/ \E d \in Deltas : StreamRecvDelta(d)
    \/ StreamRecvEOF
    \/ StreamRecvError
    \/ ClientDisconnect
    \/ Finish

Spec == Init /\ [][Next]_vars

(***************************************************************************)
(* Server.loadModelFilter                                                  *)
(***************************************************************************)
\* lines of a models-filter file, as sequences of tokens: a blank " " or a
\* word without blanks
FileLines ==
    { << >>, << " " >>, << "gpt-4o" >>, << " ", "gpt-4o-mini", " " >>,
      << "# models" >> }

\* the file at the filter path: missing, unreadable, or its lines
FilterFiles ==
    { [state |-> "notexist", lines |-> << >>],
      [state |-> "ioerror", lines |-> << >>] } \cup
    [state : {"ok"}, lines : SeqsUpTo(FileLines, MaxLines)]

RECURSIVE TrimLeft(_)
TrimLeft(line) ==
    IF line # << >> /\ Head(line) = " " THEN TrimLeft(Tail(line)) ELSE line

RECURSIVE TrimRight(_)
TrimRight(line) ==
    IF line # << >> /\ line[Len(line)] = " "
    THEN TrimRight(SubSeq(line, 1, Len(line) - 1))
    ELSE line

\* strings.TrimSpace
TrimSpace(line) == TrimRight(TrimLeft(line))

\* the string of a trimmed line: empty, or its word
LineText(trimmed) == IF trimmed = << >> THEN "" ELSE trimmed[1]

\* the scanner loop: every trimmed line that is not empty goes into the set
RECURSIVE LoadModelFilter(_)
LoadModelFilter(lines) ==
    IF lines = << >> THEN {}
    ELSE LET line == LineText(TrimSpace(Head(lines)))
         IN  (IF line # "" THEN {line} ELSE {})
                 \cup LoadModelFilter(Tail(lines))

(***************************************************************************)
(* Server.Start and Server.Stop, step by step                              *)
(***************************************************************************)
\* a panic that nothing recovers ends the process
Running == stopPc # "panicked"

\* an error of loadModelFilter that is not os.IsNotExist ends Start
LoadFatalNever(file) == FALSE
LoadFatal(file) == file.state = "ioerror"

\* go a.server.Start(): the goroutine exists and has not run yet
GoStart ==
    /\ Running
    /\ startPc = "none"
    /\ startPc' = "go"
    /\ UNCHANGED << started, filterMap, pc, requestVars, appVars, filterFile,
                    httpServer, listener, inShutdown, stopCh, wg, inflight,
                    stopPc, stopCalls, stopReturns >>

\* Start begins: wg.Add(1), the deferred wg.Done and the provider
StartEnter ==
    /\ Running
    /\ startPc = "go"
    /\ startPc' = "load"
    /\ wg' = wg + 1
    /\ UNCHANGED << started, filterMap, pc, requestVars, appVars, filterFile,
                    httpServer, listener, inShutdown, stopCh, inflight,
                    stopPc, stopCalls, stopReturns >>

\* Start loads the filter: a missing file gives the empty set, another
\* error returns from Start (and runs the deferred wg.Done)
StartLoad ==
    /\ Running
    /\ startPc = "load"
    /\ IF filterFile.state = "ok"
       THEN /\ filterMap' = LoadModelFilter(filterFile.lines)
            /\ startPc' = "serve"
            /\ wg' = wg
       ELSE IF LoadFatal(filterFile)
       THEN /\ filterMap' = filterMap
            /\ startPc' = "returned"
            /\ wg' = wg - 1
       ELSE /\ filterMap' = {}
            /\ startPc' = "serve"
            /\ wg' = wg
    /\ UNCHANGED << started, pc, requestVars, appVars, filterFile, httpServer,
                    listener, inShutdown, stopCh, inflight, stopPc,
                    stopCalls, stopReturns >>

\* the router, the routes, the http.Server and the goroutine that will run
\* ListenAndServe; Start then waits on stopCh
StartServe ==
    /\ Running
    /\ startPc = "serve"
    /\ started' = TRUE
    /\ httpServer' = "set"
    /\ listener' = "spawned"
    /\ startPc' = "wait"
    /\ UNCHANGED << filterMap, pc, requestVars, appVars, filterFile, inShutdown,
                    stopCh, wg, inflight, stopPc, stopCalls, stopReturns >>

\* httpServer.ListenAndServe: ErrServerClosed after Shutdown, else the
\* port binds or the error is logged
ListenAndServe(bound) ==
    /\ Running
    /\ listener = "spawned"
    /\ listener' = IF inShutdown THEN "closed"
                   ELSE IF bound THEN "open" ELSE "failed"
    /\ UNCHANGED << started, filterMap, pc, requestVars, appVars, filterFile, startPc,
                    httpServer, inShutdown, stopCh, wg, inflight, stopPc,
                    stopCalls, stopReturns >>

\* <-s.stopCh returns once the channel is closed; the deferred wg.Done
StartReturn ==
    /\ Running
    /\ startPc = "wait"
    /\ stopCh = "closed"
    /\ startPc' = "returned"
    /\ wg' = wg - 1
    /\ UNCHANGED << started, filterMap, pc, requestVars, appVars, filterFile,
                    httpServer, listener, inShutdown, stopCh, inflight,
                    stopPc, stopCalls, stopReturns >>

\* the listener accepts a connection and a handler starts on it
Accept ==
    /\ Running
    /\ listener = "open"
    /\ inflight < MaxInflight
    /\ inflight' = inflight + 1
    /\ UNCHANGED << started, filterMap, pc, requestVars, appVars, filterFile, startPc,
                    httpServer, listener, inShutdown, stopCh, wg, stopPc,
                    stopCalls, stopReturns >>

\* a handler returns and its connection is idle or closed
Complete ==
    /\ Running
    /\ inflight > 0
    /\ inflight' = inflight - 1
    /\ UNCHANGED << started, filterMap, pc, requestVars, appVars, filterFile, startPc,
                    httpServer, listener, inShutdown, stopCh, wg, stopPc,
                    stopCalls, stopReturns >>

\* Stop is called: nothing to do without an http.Server; else Shutdown
\* begins and closes the listener
StopBegin ==
    /\ Running
    /\ stopPc = "idle"
    /\ stopCalls < MaxStops
    /\ stopCalls' = stopCalls + 1
    /\ IF httpServer = "nil"
       THEN /\ stopReturns' = stopReturns + 1
            /\ UNCHANGED << stopPc, inShutdown, listener >>
       ELSE /\ stopPc' = "shutdown"
            /\ inShutdown' = TRUE
            /\ listener' = IF listener = "open" THEN "closed" ELSE listener
            /\ stopReturns' = stopReturns
    /\ UNCHANGED << started, filterMap, pc, requestVars, filterFile, startPc,
                    httpServer, stopCh, wg, inflight >>

\* some caller calls Stop on the server
StopCall ==
    /\ StopBegin
    /\ UNCHANGED appVars

\* Shutdown returns, because no connection is active any more or because
\* the five seconds of its context are over; then close(s.stopCh), which
\* panics on a closed channel
ShutdownReturn(timeout) ==
    /\ Running
    /\ stopPc = "shutdown"
    /\ inflight = 0 \/ timeout
    /\ IF stopCh = "closed"
       THEN /\ stopPc' = "panicked"
            /\ stopCh' = stopCh
       ELSE /\ stopPc' = "wait"
            /\ stopCh' = "closed"
    /\ UNCHANGED << started, filterMap, pc, requestVars, appVars, filterFile, startPc,
                    httpServer, listener, inShutdown, wg, inflight,
                    stopCalls, stopReturns >>

\* s.wg.Wait() returns once Start has returned; Stop returns
StopWait ==
    /\ Running
    /\ stopPc = "wait"
    /\ wg = 0
    /\ stopPc' = "idle"
    /\ stopReturns' = stopReturns + 1
    /\ UNCHANGED << started, filterMap, pc, requestVars, appVars, filterFile, startPc,
                    httpServer, listener, inShutdown, stopCh, wg, inflight,
                    stopCalls >>

\* a client lists the models of the listening server
ServeTagsDroppingFilter(r, models, ok) ==
    /\ Running
    /\ listener = "open"
    /\ started /\ pc = "idle"
    /\ r \in TagsRequests
    /\ req' = r
    /\ calls' = Called("models")
    /\ ctype' = "application/json"
    /\ catalog' = IF ok THEN models ELSE << >>
    /\ listing' = IF ok THEN NewModels(models, filterMap) ELSE << >>
    /\ status' = IF ok THEN 200 ELSE 500
    /\ body' = IF ok THEN << >> ELSE << ErrorObject >>
    /\ pc' = "done"
    /\ outcome' = "returned"
    /\ callErr' = ~ok
    /\ filterMap' = {}
    /\ UNCHANGED << lifecycleVars, started, chatResponse, path, unflushed,
                    received, lastFinishReason, backendEnd, streamEnd,
                    clientConnected, resolved, drained >>
ServeTags(r, models, ok) ==
    /\ Running
    /\ listener = "open"
    /\ TagsHandler(r, models, ok)

InitServer ==
    /\ InitHandlerVars
    /\ filterFile \in FilterFiles
    /\ InitServerVars
    /\ InitAppVars(DefaultConfig)

NextServer ==
    \/ GoStart
    \/ StartEnter
    \/ StartLoad
    \/ StartServe
    \/ \E bound \in BOOLEAN : ListenAndServe(bound)
    \/ StartReturn
    \/ Accept
    \/ Complete
    \/ StopCall
    \/ \E timeout \in BOOLEAN : ShutdownReturn(timeout)
    \/ StopWait
    \/ \E r \in TagsRequests, models \in Catalogs, ok \in BOOLEAN :
           ServeTags(r, models, ok)
    \/ Finish

SpecServer == InitServer /\ [][NextServer]_vars

(***************************************************************************)
(* The App controller (app.go): startServer, stopServer, the menu loop     *)
(***************************************************************************)
\* what serverMutex holds once goroutine t has locked it
LockedByNobody(t) == "free"
LockedBy(t) == t

\* where goroutine t goes on when startServer or stopServer returns: the
\* menu loop to the Unlock of the toggle case, onExit to SaveConfig
Return(t) ==
    IF t = "menu" THEN "toggle_unlock"
    ELSE IF t = "exit" THEN "save" ELSE "done"

\* onReady: go a.startServer() if the configuration says so, and the
\* goroutine of the menu loop
OnReady ==
    /\ appPc["menu"] = "none"
    /\ appPc' = [appPc EXCEPT
                   !["menu"] = "loop",
                   !["auto"] = IF config.ServerEnabled
                               THEN "start_lock" ELSE "done"]
    /\ UNCHANGED << started, filterMap, pc, requestVars, serverVars,
                    serverMutex, serverActive, server, config, savedConfig >>

\* case <-mToggle.ClickedCh
ToggleClick ==
    /\ appPc["menu"] = "loop"
    /\ appPc' = [appPc EXCEPT !["menu"] = "toggle_lock"]
    /\ UNCHANGED << started, filterMap, pc, requestVars, serverVars,
                    serverMutex, serverActive, server, config, savedConfig >>

\* a.serverMutex.Lock() of the toggle case
ToggleLock ==
    /\ appPc["menu"] = "toggle_lock"
    /\ serverMutex = "free"
    /\ serverMutex' = LockedBy("menu")
    /\ appPc' = [appPc EXCEPT !["menu"] = "toggle_read"]
    /\ UNCHANGED << started, filterMap, pc, requestVars, serverVars,
                    serverActive, server, config, savedConfig >>

\* if a.serverActive: calls stopServer, or startServer when the keyring
\* holds an API key (after the dialog), or neither
ToggleRead(hasKey) ==
    /\ appPc["menu"] = "toggle_read"
    /\ appPc' = [appPc EXCEPT !["menu"] =
                   IF serverActive THEN "stop_lock"
                   ELSE IF hasKey THEN "start_lock" ELSE "toggle_unlock"]
    /\ UNCHANGED << started, filterMap, pc, requestVars, serverVars,
                    serverMutex, serverActive, server, config, savedConfig >>

\* a.serverMutex.Unlock() of the toggle case
ToggleUnlock ==
    /\ appPc["menu"] = "toggle_unlock"
    /\ serverMutex' = "free"
    /\ appPc' = [appPc EXCEPT !["menu"] = "loop"]
    /\ UNCHANGED << started, filterMap, pc, requestVars, serverVars,
                    serverActive, server, config, savedConfig >>

\* case <-mQuit.ClickedCh: systray.Quit() and the loop returns; systray
\* then calls onExit, which calls stopServer
QuitClick ==
    /\ appPc["menu"] = "loop"
    /\ appPc' = [appPc EXCEPT !["menu"] = "quit", !["exit"] = "stop_lock"]
    /\ UNCHANGED << started, filterMap, pc, requestVars, serverVars,
                    serverMutex, serverActive, server, config, savedConfig >>

\* startServer: a.serverMutex.Lock(), which waits for a free mutex
StartServerLock(t) ==
    /\ appPc[t] = "start_lock"
    /\ serverMutex = "free"
    /\ serverMutex' = LockedBy(t)
    /\ appPc' = [appPc EXCEPT ![t] = "start_check"]
    /\ UNCHANGED << started, filterMap, pc, requestVars, serverVars,
                    serverActive, server, config, savedConfig >>

\* startServer: returns (deferred Unlock) if the server is active or the
\* keyring gives no API key
StartServerCheck(t, keyOk) ==
    /\ appPc[t] = "start_check"
    /\ IF serverActive \/ ~keyOk
       THEN /\ serverMutex' = "free"
            /\ appPc' = [appPc EXCEPT ![t] = Return(t)]
       ELSE /\ serverMutex' = serverMutex
            /\ appPc' = [appPc EXCEPT ![t] = "start_run"]
    /\ UNCHANGED << started, filterMap, pc, requestVars, serverVars,
                    serverActive, server, config, savedConfig >>

\* startServer: NewServer, go a.server.Start(), the flags, SaveConfig and
\* the deferred Unlock
StartServerRun(t) ==
    /\ appPc[t] = "start_run"
    /\ startPc = "none"
    /\ startPc' = "go"
    /\ server' = "set"
    /\ serverActive' = TRUE
    /\ config' = [config EXCEPT !.ServerEnabled = TRUE]
    /\ savedConfig' = config'
    /\ serverMutex' = "free"
    /\ appPc' = [appPc EXCEPT ![t] = Return(t)]
    /\ UNCHANGED << started, filterMap, pc, requestVars, filterFile,
                    httpServer, listener, inShutdown, stopCh, wg, inflight,
                    stopPc, stopCalls, stopReturns >>

\* stopServer: a.serverMutex.Lock()
StopServerLock(t) ==
    /\ appPc[t] = "stop_lock"
    /\ serverMutex = "free"
    /\ serverMutex' = LockedBy(t)
    /\ appPc' = [appPc EXCEPT ![t] = "stop_check"]
    /\ UNCHANGED << started, filterMap, pc, requestVars, serverVars,
                    serverActive, server, config, savedConfig >>

\* stopServer: returns (deferred Unlock) if no server is active
StopServerCheck(t) ==
    /\ appPc[t] = "stop_check"
    /\ IF ~serverActive \/ server = "nil"
       THEN /\ serverMutex' = "free"
            /\ appPc' = [appPc EXCEPT ![t] = Return(t)]
       ELSE /\ serverMutex' = serverMutex
            /\ appPc' = [appPc EXCEPT ![t] = "stop_run"]
    /\ UNCHANGED << started, filterMap, pc, requestVars, serverVars,
                    serverActive, server, config, savedConfig >>

\* stopServer: a.server.Stop() is called
StopServerRun(t) ==
    /\ appPc[t] = "stop_run"
    /\ StopBegin
    /\ appPc' = [appPc EXCEPT ![t] = "stop_wait"]
    /\ UNCHANGED << serverMutex, serverActive, server, config, savedConfig >>

\* stopServer: Stop has returned; the flags, SaveConfig and the deferred
\* Unlock
StopServerDone(t) ==
    /\ appPc[t] = "stop_wait"
    /\ stopPc = "idle"
    /\ server' = "nil"
    /\ serverActive' = FALSE
    /\ config' = [config EXCEPT !.ServerEnabled = FALSE]
    /\ savedConfig' = config'
    /\ serverMutex' = "free"
    /\ appPc' = [appPc EXCEPT ![t] = Return(t)]
    /\ UNCHANGED << started, filterMap, pc, requestVars, serverVars >>

\* onExit: SaveConfig(a.config) after stopServer
ExitSave ==
    /\ appPc["exit"] = "save"
    /\ savedConfig' = config
    /\ appPc' = [appPc EXCEPT !["exit"] = "done"]
    /\ UNCHANGED << started, filterMap, pc, requestVars, serverVars,
                    serverMutex, serverActive, server, config >>

InitApp ==
    /\ InitHandlerVars
    /\ filterFile \in FilterFiles
    /\ InitServerVars
    /\ \E enabled \in BOOLEAN : InitAppVars([ServerEnabled |-> enabled])

NextApp ==
    \/ OnReady
    \/ ToggleClick
    \/ ToggleLock
    \/ \E hasKey \in BOOLEAN : ToggleRead(hasKey)
    \/ ToggleUnlock
    \/ QuitClick
    \/ \E t \in AppThreads : StartServerLock(t)
    \/ \E t \in AppThreads, keyOk \in BOOLEAN : StartServerCheck(t, keyOk)
    \/ \E t \in AppThreads : StartServerRun(t)
    \/ \E t \in AppThreads : StopServerLock(t)
    \/ \E t \in AppThreads : StopServerCheck(t)
    \/ \E t \in AppThreads : StopServerRun(t)
    \/ \E t \in AppThreads : StopServerDone(t)
    \/ ExitSave
    \/ StartEnter
    \/ StartLoad
    \/ StartServe
    \/ \E bound \in BOOLEAN : ListenAndServe(bound)
    \/ StartReturn
    \/ \E timeout \in BOOLEAN : ShutdownReturn(timeout)
    \/ StopWait

SpecApp == InitApp /\ [][NextApp]_vars

\* the steps of the goroutines, as opposed to the clicks of the user
AppProgress ==
    \/ OnReady
    \/ ToggleLock
    \/ \E hasKey \in BOOLEAN : ToggleRead(hasKey)
    \/ ToggleUnlock
    \/ \E t \in AppThreads : StartServerLock(t)
    \/ \E t \in AppThreads, keyOk \in BOOLEAN : StartServerCheck(t, keyOk)
    \/ \E t \in AppThreads : StartServerRun(t)
    \/ \E t \in AppThreads : StopServerLock(t)
    \/ \E t \in AppThreads : StopServerCheck(t)
    \/ \E t \in AppThreads : StopServerRun(t)
    \/ \E t \in AppThreads : StopServerDone(t)
    \/ ExitSave
    \/ StartEnter
    \/ StartLoad
    \/ StartServe
    \/ \E bound \in BOOLEAN : ListenAndServe(bound)
    \/ StartReturn
    \/ \E timeout \in BOOLEAN : ShutdownReturn(timeout)
    \/ StopWait

\* the Go scheduler runs every goroutine that can take a step; the user
\* need not click
FairSpecApp == InitApp /\ [][NextApp]_vars /\ WF_vars(AppProgress)

(***************************************************************************)
(* Properties of the chat route                                            *)
(***************************************************************************)
ChatInteraction == req.route = "chat"
StreamingChat == req.route = "chat" /\ req.json = "ok" /\ StreamRequested(req)

DoneTrueFrames(b) == { i \in 1..Len(b) : b[i].done = "true" }
DoneFalseFrames(b) == { i \in 1..Len(b) : b[i].done = "false" }
ErrorFrames(b) == { i \in 1..Len(b) : b[i].error }

RECURSIVE ConcatContent(_)
ConcatContent(q) ==
    IF q = << >> THEN << >> ELSE Head(q).content \o ConcatContent(Tail(q))

\* the frames of a body but the last
Front(b) == SubSeq(b, 1, Len(b) - 1)

\* C1: a streaming chat whose alias resolves and whose backend stream opens
\* and ends with end-of-stream answers with newline-terminated frames: one
\* done:false frame per backend delta, in arrival order and with the
\* delta's content, then the only done:true frame, last.
C1_StreamFraming ==
    (pc = "done" /\ StreamingChat /\ resolved = "ok" /\ backendEnd = "eof")
    => /\ Len(body) = Len(received) + 1
       /\ \A i \in 1..Len(body) : body[i].nl /\ ~body[i].error
       /\ DoneTrueFrames(body) = { Len(body) }
       /\ DoneFalseFrames(body) = 1..(Len(body) - 1)
       /\ \A i \in 1..Len(received) : body[i].content = received[i].content
       /\ ConcatContent(Front(body)) = ConcatContent(received)

\* C2 as stated: every chat interaction, once over, carries exactly one
\* done:true frame, which is its last frame.
C2_AlwaysOneDoneTrue ==
    (pc = "done" /\ ChatInteraction)
    => DoneTrueFrames(body) = { Len(body) }

\* a chat interaction that succeeded: a non-streaming answer with 200, or
\* a receive loop that saw end-of-stream
ChatSucceeded ==
    \/ ~StreamingChat /\ status = 200
    \/ StreamingChat /\ streamEnd = "eof"

\* C2 amended: a chat interaction never carries more than one done:true
\* frame and nothing follows it; done:false frames occur only in streaming
\* interactions; the interaction ends with exactly one done:true frame when
\* it succeeds and carries none when it fails.
C2_DoneTrueOnSuccess ==
    ChatInteraction
    => /\ Cardinality(DoneTrueFrames(body)) <= 1
       /\ DoneTrueFrames(body) \subseteq { Len(body) }
       /\ DoneFalseFrames(body) # {} => StreamingChat
       /\ pc = "done" =>
            IF ChatSucceeded THEN DoneTrueFrames(body) = { Len(body) }
                             ELSE DoneTrueFrames(body) = {}

C2_Witness ==
    /\ pc = "done" /\ StreamingChat /\ streamEnd = "eof"
    /\ Len(body) = 3
    /\ DoneFalseFrames(body) = {1, 2}

\* C3: when GetFullModelName fails the chat route answers 404 with a JSON
\* error object, streaming or not; neither Chat nor ChatStream is called
\* and no frame is written.
C3_UnknownAliasIs404 ==
    (ChatInteraction /\ resolved \in {"notfound", "backenderr"})
    => /\ pc = "done"
       /\ status = 404
       /\ body = << ErrorObject >>
       /\ calls.chat = 0 /\ calls.chatStream = 0 /\ calls.recv = 0

C3_Witness ==
    /\ pc = "done" /\ StreamingChat /\ req.model = "nope"
    /\ resolved = "notfound" /\ status = 404

\* C4: on the chat route only model-not-found is answered 404; a backend
\* failure while resolving, a failed Chat and a failed ChatStream are
\* answered 500.
C4_OnlyNotFoundIs404 ==
    (pc = "done" /\ ChatInteraction)
    => /\ status = 404 <=> resolved = "notfound"
       /\ (resolved = "backenderr" \/ callErr) => status = 500

\* C5: when Recv returns an error other than end-of-stream the handler
\* writes exactly one newline-terminated error frame, no done:true frame,
\* calls Recv no more and ends.
C5_StreamErrorFrame ==
    streamEnd = "error"
    => /\ pc = "done" /\ outcome = "returned"
       /\ ErrorFrames(body) = { Len(body) }
       /\ body[Len(body)] = ErrorFrame
       /\ DoneTrueFrames(body) = {}
       /\ calls.recv = Len(received) + 1

C5_Witness ==
    /\ streamEnd = "error" /\ pc = "done"
    /\ Len(received) = 2 /\ Len(body) = 3

\* C6: the handle ChatStream returned is closed exactly once before the
\* handler is over, on every way out, and never while the loop still
\* receives; no handle is open between requests.
C6_StreamClosedOnce ==
    /\ calls.close <= 1
    /\ backendEnd = "none" => calls.close = 0
    /\ pc = "streaming" => StreamHandleOpen
    /\ (pc = "done" /\ backendEnd # "none") => calls.close = 1
    /\ pc = "idle" => ~StreamHandleOpen

C6_Witness ==
    /\ pc = "done" /\ outcome = "panic" /\ ~clientConnected
    /\ Len(body) = 1 /\ calls.close = 1

\* C7: once the client's connection is gone the streaming handler stops
\* receiving: at most the Recv that was in flight returns.
C7_StopsOnTeardown ==
    drained <= 1

(***************************************************************************)
(* Properties of the tags and show routes                                  *)
(***************************************************************************)
\* the catalog positions the filter set lets through
Passing ==
    { j \in 1..Len(catalog) :
        filterMap = {} \/ catalog[j].model \in filterMap }

\* C8: the listing of /api/tags is a sub-sequence of the catalog in backend
\* order, and a catalog entry is listed if and only if the filter set is
\* empty or holds exactly the entry's bare model identifier.
C8_FilteredListing ==
    (pc = "done" /\ req.route = "tags" /\ status = 200)
    => \E f \in [1..Len(listing) -> 1..Len(catalog)] :
          /\ \A i, k \in 1..Len(listing) : i < k => f[i] < f[k]
          /\ \A i \in 1..Len(listing) :
                /\ listing[i].name = catalog[f[i]].name
                /\ listing[i].model = catalog[f[i]].model
          /\ { f[i] : i \in 1..Len(listing) } = Passing

C8_Witness ==
    /\ pc = "done" /\ req.route = "tags" /\ status = 200
    /\ filterMap = {"gpt-4o-mini", "openai/gpt-4o"}
    /\ Len(catalog) = 3 /\ Len(listing) = 2
    /\ catalog[2].model = "gpt-4o"

\* C9: a malformed JSON body on the chat or the show route is answered 400
\* and no backend operation is invoked for it.
C9_MalformedBodyIs400 ==
    req.json = "malformed"
    => /\ calls = NoCalls
       /\ pc = "done" /\ status = 400 /\ body = << ErrorObject >>

C9_Witness ==
    pc = "done" /\ req.route = "chat" /\ req.json = "malformed"
    /\ status = 400

\* C10: a show request without a name, or with an empty one, is answered
\* 400 and GetModelDetails is not called; with a non-empty name it is
\* called exactly once and the answer is 200 with the details, or 500 when
\* the call failed.
C10_ShowNeedsName ==
    (pc = "done" /\ req.route = "show" /\ req.json = "ok")
    => IF req.name \in {NoField, ""}
       THEN status = 400 /\ calls = NoCalls
       ELSE /\ calls = [NoCalls EXCEPT !.details = 1]
            /\ IF callErr THEN status = 500 /\ body = << ErrorObject >>
                          ELSE status = 200 /\ body = << DetailsObject >>

C10_Witness ==
    pc = "done" /\ req.route = "show" /\ req.json = "ok" /\ req.name = ""
    /\ status = 400

(***************************************************************************)
(* Further properties of the chat route                                    *)
(***************************************************************************)
NonStreamingChat ==
    req.route = "chat" /\ req.json = "ok" /\ req.stream = "false"

\* C11: a chat request with stream:false whose alias resolves calls Chat
\* exactly once; a successful call with at least one choice is answered by
\* exactly one JSON object with done:true, role assistant, the first
\* choice's content and its finish reason, or "stop" when that is empty;
\* a failed call or one without choices is answered by a 500 error object.
C11_NonStreamAnswer ==
    (pc = "done" /\ NonStreamingChat /\ resolved = "ok")
    => /\ calls.chat = 1 /\ calls.chatStream = 0 /\ calls.recv = 0
       /\ Len(body) = 1
       /\ IF ~callErr /\ chatResponse.choices >= 1
          THEN /\ status = 200
               /\ body[1].done = "true" /\ ~body[1].error
               /\ body[1].role = "assistant"
               /\ body[1].content = chatResponse.content
               /\ body[1].finish =
                    (IF chatResponse.finish = "" THEN "stop"
                                                 ELSE chatResponse.finish)
          ELSE status = 500 /\ body[1] = ErrorObject

C11_Witness ==
    /\ pc = "done" /\ NonStreamingChat /\ status = 200
    /\ chatResponse.finish = "" /\ chatResponse.content = <<"H", "e">>
    /\ body[1].finish = "stop"

RECURSIVE LatestFinish(_)
LatestFinish(q) ==
    IF q = << >> THEN "stop"
    ELSE IF q[Len(q)].choices > 0 /\ q[Len(q)].finish # ""
         THEN q[Len(q)].finish
         ELSE LatestFinish(Front(q))

\* C13: in a streaming chat that reaches end-of-stream the finish_reason of
\* the done:true frame is the non-empty finish reason of the latest delta
\* that carried one, and "stop" when no delta carried one.
C13_LastFinishReasonWins ==
    streamEnd = "eof"
    => /\ body[Len(body)].done = "true"
       /\ body[Len(body)].finish = LatestFinish(received)

C13_Witness ==
    /\ streamEnd = "eof" /\ Len(received) = 3
    /\ received[1].finish = "stop"
    /\ received[2].finish = "length"
    /\ received[3].finish = ""
    /\ body[Len(body)].finish = "length"

\* C19: every delta the backend stream yields, a delta with an empty list
\* of choices included, becomes exactly one done:false frame; the handler
\* never aborts because of the shape of a delta.
C19_OneFramePerDelta ==
    StreamingChat
    => /\ Cardinality(DoneFalseFrames(body)) = Len(received)
       /\ outcome # "panic"

\* C20: in the streaming path every frame is flushed before the handler
\* receives again or returns.
C20_FlushedBeforeNextRecv ==
    (backendEnd # "none" /\ pc \in {"streaming", "done"})
    => unflushed = 0

C20_Witness ==
    /\ pc = "streaming" /\ Len(body) = 2 /\ unflushed = 0
    /\ calls.recv = 2


(***************************************************************************)
(* Properties of Server.Start, Server.Stop and the filter file             *)
(***************************************************************************)
\* a Stop that ran Shutdown has returned
StoppedServer == inShutdown /\ stopPc = "idle" /\ stopReturns >= 1

\* C14: Stop stops accepting connections and, once the grace period is
\* over, closes every connection still in flight: after Stop has returned
\* the listener accepts nothing and no request is being served.
C14_NothingServedAfterStop ==
    StoppedServer => (listener # "open" /\ inflight = 0)

\* C15: Stop is idempotent: a second Stop on a started and stopped server
\* returns without a panic and leaves the server stopped.
C15_StopIsIdempotent ==
    /\ stopPc # "panicked"
    /\ (stopCalls = 2 /\ stopPc = "idle" /\ inShutdown)
       => (stopReturns = 2 /\ stopCh = "closed" /\ listener # "open")

\* Start is past loadModelFilter
FilterLoaded == startPc \in {"serve", "wait", "returned"}

\* C16: a missing filter file is no error: Start goes on with the empty
\* filter set, creates the server, returns only when stopped, and the
\* listing is unfiltered.  Any other failure to read the file ends Start:
\* no http.Server, no listener, no route served.
C16_FilterFileAtStart ==
    /\ (filterFile.state = "notexist" /\ FilterLoaded)
       => /\ filterMap = {}
          /\ startPc = "returned" => stopCh = "closed"
          /\ startPc # "serve" => (httpServer = "set" /\ listener # "none")
          /\ (pc = "done" /\ req.route = "tags" /\ status = 200)
             => Len(listing) = Len(catalog)
    /\ filterFile.state = "ioerror"
       => /\ startPc \in {"none", "go", "load", "returned"}
          /\ httpServer = "nil" /\ listener = "none"
          /\ ~started /\ pc = "idle"

C16_Witness ==
    /\ filterFile.state = "notexist"
    /\ listener = "open"
    /\ pc = "done" /\ req.route = "tags" /\ status = 200
    /\ Len(catalog) = 3 /\ Len(listing) = 3

\* the lines of the filter file that begin with #
CommentLines == { << "# models" >> }

\* the words such lines would leave in the set
CommentTexts == { LineText(TrimSpace(line)) : line \in CommentLines }

\* the file holds nothing but comment lines and blank lines
OnlyCommentsAndBlanks(lines) ==
    \A i \in 1..Len(lines) :
        lines[i] \in CommentLines \/ TrimSpace(lines[i]) = << >>

\* C17: comment lines and blank lines of the filter file add no member to
\* the filter set; a file of only such lines gives the empty set and an
\* unfiltered listing.
C17_CommentsIgnored ==
    (filterFile.state = "ok" /\ FilterLoaded)
    => /\ filterMap \cap (CommentTexts \cup {""}) = {}
       /\ OnlyCommentsAndBlanks(filterFile.lines)
          => /\ filterMap = {}
             /\ (pc = "done" /\ req.route = "tags" /\ status = 200)
                => Len(listing) = Len(catalog)


(***************************************************************************)
(* Properties of the App controller                                        *)
(***************************************************************************)
\* the places where a goroutine reads or writes serverActive or server
AccessPcs ==
    {"toggle_read", "start_check", "start_run", "stop_check", "stop_run",
     "stop_wait"}

\* the places inside startServer and stopServer that write them
MutatePcs == {"start_run", "stop_wait"}

\* every goroutine about to read or write the state holds the mutex
AccessUnderMutex ==
    \A t \in AppThreads : appPc[t] \in AccessPcs => serverMutex = t

\* a step that changes the state is taken by the holder of the mutex
\* inside startServer or stopServer
MutationUnderMutex ==
    (serverActive' # serverActive \/ server' # server)
    => \E t \in AppThreads :
          /\ serverMutex = t
          /\ appPc[t] \in MutatePcs
          /\ appPc'[t] # appPc[t]

\* C18: serverActive and server are read and written only by a goroutine
\* that holds serverMutex, and only startServer and stopServer write them,
\* whatever the interleaving of menu clicks, auto-start and exit.
C18_StateOnlyUnderMutex ==
    [] AccessUnderMutex /\ [][MutationUnderMutex]_vars

\* the menu loop reads, under the mutex, the flag that the auto-start wrote
C18_Witness ==
    /\ appPc["menu"] = "toggle_read"
    /\ appPc["auto"] = "done"
    /\ serverMutex = "menu"
    /\ serverActive /\ server = "set"


(***************************************************************************)
(* Further properties of the streaming path, the filter and the App        *)
(***************************************************************************)
\* C21: on the streaming path a 404 or 500 answer is a JSON error object
\* sent when no stream was opened and no frame written; once the backend
\* stream is open the status is 200 with the NDJSON content type, and a
\* failure then shows as an error frame in the body.
C21_StatusFixedBeforeFirstFrame ==
    (StreamingChat /\ pc = "done")
    => /\ status \in {404, 500}
          => (backendEnd = "none" /\ body = << ErrorObject >>)
       /\ backendEnd # "none"
          => /\ status = 200 /\ ctype = "application/x-ndjson"
             /\ streamEnd = "error" => body[Len(body)] = ErrorFrame

\* the filter set is in place before a listener exists
FilterBeforeListener == listener # "none" => FilterLoaded

\* once loaded the filter set stays as it is
FilterFrozen == FilterLoaded => filterMap' = filterMap

\* C22: Start assigns the filter set before the listener accepts requests
\* and nothing changes it afterwards: no handler adds to it, removes from
\* it or replaces it, however many requests are being served.
C22_FilterReadOnlyAfterLoad ==
    [] FilterBeforeListener /\ [][FilterFrozen]_vars

C22_Witness ==
    /\ listener = "open" /\ inflight = 2
    /\ pc = "done" /\ req.route = "tags" /\ status = 200
    /\ filterMap = {"gpt-4o-mini"}
    /\ Len(catalog) = 3 /\ Len(listing) = 1

\* C23: a click on the toggle item is handled to the end: the handler
\* takes serverMutex, starts or stops the server, releases the mutex and
\* is back in the event loop; and the stopServer of onExit gets through.
C23_ToggleHandled ==
    /\ (appPc["menu"] = "toggle_lock") ~> (appPc["menu"] = "loop")
    /\ (appPc["exit"] = "stop_lock") ~> (appPc["exit"] = "done")

\* the stopServer of onExit called Stop on the server and has returned
StopServerReturned ==
    stopCalls >= 1 /\ appPc["exit"] \in {"save", "done"}

\* C24: once stopServer has returned, the server it stopped has no open
\* listener, and its Start has returned or is about to return without
\* listening: it is not left waiting on a stopCh that nobody will close.
C24_StopLeavesNothingRunning ==
    StopServerReturned
    => /\ listener # "open"
       /\ startPc = "wait" => stopCh = "closed"
       /\ startPc \notin {"go", "load", "serve"}

\* Start gave up on the filter file, or ListenAndServe could not bind
StartupAbandoned ==
    \/ startPc = "returned" /\ stopCh = "open"
    \/ listener = "failed"

\* C25: while the controller records the server as active, the Server it
\* holds has not abandoned startup.
C25_ActiveMeansStarted ==
    (serverActive /\ server = "set") => ~StartupAbandoned

\* onExit is over and its stopServer found the server active: it called
\* Stop on it
QuitWhileRunning == appPc["exit"] = "done" /\ stopCalls >= 1

\* C26: when the server is running as the user quits, the configuration
\* saved on exit has ServerEnabled = true, so the next launch starts the
\* server again.
C26_EnabledSavedOnQuit ==
    QuitWhileRunning => savedConfig.ServerEnabled

====
